---- MODULE Spec2Model ----
(***************************************************************************)
(* Model of the tabby-metadata pipeline of demo-datacat:                   *)
(*   - code/process_subdirectory.py: the run that builds a subdataset      *)
(*     reference and reconciles it with the superdataset's registry file   *)
(*     .datalad/tabby/self/subdatasets@tby-abcdjv0.tsv;                    *)
(*   - code/utils.py, code/queries.py: the field normalizers.              *)
(*                                                                         *)
(* Python values are tagged records: the tag k is the Python type, v the   *)
(* payload.  A dict is a function from its keys to values, a list is a     *)
(* sequence, and an exception raised by a function is the value Raise(e).  *)
(***************************************************************************)
EXTENDS Integers, Sequences, FiniteSets, TLC

VARIABLES
    fileExists,        \* subdatasets_tabby_path.exists()
    tsv,               \* lines of the registry file, header first; each line a sequence of cells
    subdataset,        \* the reference built by the last run (process_subdirectory.py:66-74)
    ignore_super,      \* args.ignore_super of the last run
    subdataset_added,  \* subdataset_added of the last run
    written,           \* the rows the last run handed to csv.DictWriter, None when it wrote nothing
    saved,             \* the last run called ds.save
    prev_exists,       \* fileExists before the last run
    prev_tsv,          \* tsv before the last run
    repeated,          \* the last two runs, both without --ignore-super, had the same reference
    runs,              \* number of runs so far
    events,            \* what the last run did to the registry file, the superdataset and the catalog, in order
    fn,                \* the normalizer called last
    arg,               \* the value it was called with
    result,            \* the value it returned, or the exception it raised
    session,           \* the answers of the ontology service to the session of that call
    arg_after,         \* the object that was passed to the call, as the call left it
    id_source,         \* the id_source argument of the call of get_tabby_metadata
    dataset,           \* the datalad dataset at its dataset_path argument, None without one
    minted,            \* the calls of mint_dataset_id so far, each a pair <<name, identifier>>
    pc,                \* where each of the concurrent runs is in its reconciliation
    cand,              \* the reference each concurrent run reconciles
    all_rows_of,        \* the rows each concurrent run is about to write
    overlapped         \* a concurrent run took a step while another was under way

registry_vars == <<fileExists, tsv, subdataset, ignore_super, subdataset_added, written,
          saved, prev_exists, prev_tsv, repeated, runs, events>>

norm_vars == <<fn, arg, result, session, arg_after>>

asm_vars == <<id_source, dataset>>

mint_vars == <<minted>>

conc_vars == <<pc, cand, all_rows_of, overlapped>>

vars == <<registry_vars, norm_vars, asm_vars, mint_vars, conc_vars>>

-----------------------------------------------------------------------------
(* Python values *)

None == [k |-> "none"]
Str(s) == [k |-> "str", v |-> s]
PyInt(n) == [k |-> "int", v |-> n]
PyBool(b) == [k |-> "bool", v |-> b]
Dict(f) == [k |-> "dict", v |-> f]
List(s) == [k |-> "list", v |-> s]
Raise(e) == [k |-> "raise", v |-> e]

EmptyDict == Dict([key \in {} |-> None])

\* dict.get(key, default)
Get(d, key, default) == IF key \in DOMAIN d.v THEN d.v[key] ELSE default

Range(s) == {s[i] : i \in DOMAIN s}

\* bool(val)
Truthy(val) ==
    CASE val.k = "none" -> FALSE
      [] val.k = "bool" -> val.v
      [] val.k = "str"  -> val.v # ""
      [] val.k = "int"  -> val.v # 0
      [] val.k = "list" -> Len(val.v) > 0
      [] val.k = "dict" -> DOMAIN val.v # {}
      [] OTHER -> TRUE

\* d[key] = val
DictSet(d, key, val) ==
    Dict([f \in DOMAIN d.v \cup {key} |-> IF f = key THEN val ELSE d.v[f]])

\* left | right
DictMerge(left, right) ==
    Dict([f \in DOMAIN left.v \cup DOMAIN right.v |->
            IF f \in DOMAIN right.v THEN right.v[f] ELSE left.v[f]])

\* {k: v for k, v in d.items() if v is not None}
DropNone(d) == Dict([f \in {g \in DOMAIN d.v : d.v[g] # None} |-> d.v[f]])

\* [f(x) for x in seq], given out[i] = f(seq[i]): the first exception raised
\* ends the comprehension
comprehension(out) ==
    LET bad == {i \in 1..Len(out) : out[i].k = "raise"}
    IN  IF bad = {} THEN List(out)
        ELSE out[CHOOSE i \in bad : \A j \in bad : i <= j]

-----------------------------------------------------------------------------
(* Bounds and input domains of the registry runs *)

MaxRuns == 3

\* the runs of process_subdirectory.py that may overlap
Procs == {1, 2}

\* (identifier, subdir_path) of the subdirectories that are processed
Keys == {<<"X", "sub">>, <<"X", "sub2">>, <<"Y", "sub">>}
Versions == {"v1", "v2"}
DatasetTypes == {"datalad", "other"}
\* subdataset_record[0].get("url"): it is used for a datalad dataset only
Urls(dataset_type) ==
    IF dataset_type = "datalad" THEN {None, Str("https://example.org/x")} ELSE {None}

-----------------------------------------------------------------------------
(* utils.py: identifier minting.  uuid.uuid5 is SHA-1 over the namespace's  *)
(* 16 bytes followed by the UTF-8 bytes of the name; the first 16 bytes of  *)
(* the digest, with the version and variant bits set, are the identifier.   *)
(* A 32-bit word is a pair <<hi, lo>> of 16-bit halves.                     *)

\* the printable ASCII characters in code order: from the blank (code 32) to
\* the underscore (95), and from a (97) to the tilde (126); the grave accent
\* (96) cannot be written in a string here and is in no name
AsciiLow == " !\"#$%&'()*+,-./0123456789:;<=>?@ABCDEFGHIJKLMNOPQRSTUVWXYZ[\\]^_"
AsciiHigh == "abcdefghijklmnopqrstuvwxyz{|}~"

\* ord(c) of an ASCII character
ord(c) ==
    IF \E i \in 1..Len(AsciiLow) : SubSeq(AsciiLow, i, i) = c
    THEN 31 + (CHOOSE i \in 1..Len(AsciiLow) : SubSeq(AsciiLow, i, i) = c)
    ELSE 96 + (CHOOSE i \in 1..Len(AsciiHigh) : SubSeq(AsciiHigh, i, i) = c)

\* name.encode("utf-8") of an ASCII string
encode(str) == [i \in 1..Len(str) |-> ord(SubSeq(str, i, i))]

\* a & b on 16-bit halves
RECURSIVE and16(_, _)
and16(a, b) ==
    IF a = 0 \/ b = 0 THEN 0
    ELSE (2 * and16(a \div 2, b \div 2)) + ((a % 2) * (b % 2))

xor16(a, b) == (a + b) - (2 * and16(a, b))

word_and(x, y) == <<and16(x[1], y[1]), and16(x[2], y[2])>>
word_xor(x, y) == <<xor16(x[1], y[1]), xor16(x[2], y[2])>>
word_not(x) == <<65535 - x[1], 65535 - x[2]>>

\* (x + y) mod 2^32
word_add(x, y) ==
    LET lo == x[2] + y[2]
    IN  <<(x[1] + y[1] + (lo \div 65536)) % 65536, lo % 65536>>

\* x rotated left by n bits, 0 < n < 16
rotl_short(x, n) ==
    <<((x[1] * (2^n)) % 65536) + (x[2] \div (2^(16 - n))),
      ((x[2] * (2^n)) % 65536) + (x[1] \div (2^(16 - n)))>>

\* x rotated left by n bits, 0 < n < 32, n # 16
rotl(x, n) == IF n < 16 THEN rotl_short(x, n) ELSE rotl_short(<<x[2], x[1]>>, n - 16)

\* SHA-1 padding: a 1 bit, zero bits up to 56 mod 64 bytes, then the length of
\* the message in bits as 8 bytes (the messages here are shorter than 8192 bytes)
sha1_pad(bytes) ==
    LET n == Len(bytes)
        zeros == (119 - n) % 64
    IN  bytes \o <<128>> \o [i \in 1..zeros |-> 0]
              \o <<0, 0, 0, 0, 0, 0, (n * 8) \div 256, (n * 8) % 256>>

\* the 16 words of block b (from 0) of the padded message
sha1_block(padded, b) ==
    [t \in 1..16 |->
        LET at == (64 * b) + (4 * (t - 1))
        IN  <<(padded[at + 1] * 256) + padded[at + 2], (padded[at + 3] * 256) + padded[at + 4]>>]

\* the message schedule: 80 words from the 16 of the block
RECURSIVE sha1_schedule(_)
sha1_schedule(w) ==
    IF Len(w) = 80 THEN w
    ELSE LET t == Len(w) + 1
         IN  sha1_schedule(Append(w,
                 rotl(word_xor(word_xor(w[t - 3], w[t - 8]), word_xor(w[t - 14], w[t - 16])), 1)))

\* the round function and round constant of round t (from 0)
sha1_f(t, b, c, d) ==
    IF t < 20 THEN word_xor(word_and(b, c), word_and(word_not(b), d))
    ELSE IF t < 40 THEN word_xor(word_xor(b, c), d)
    ELSE IF t < 60 THEN word_xor(word_xor(word_and(b, c), word_and(b, d)), word_and(c, d))
    ELSE word_xor(word_xor(b, c), d)

sha1_k(t) ==
    IF t < 20 THEN <<23170, 31129>>
    ELSE IF t < 40 THEN <<28377, 60321>>
    ELSE IF t < 60 THEN <<36635, 48348>>
    ELSE <<51810, 49622>>

\* round t (from 0) on the working variables s = <<a, b, c, d, e>>
sha1_round(s, w, t) ==
    LET temp == word_add(word_add(word_add(rotl(s[1], 5), sha1_f(t, s[2], s[3], s[4])),
                                  word_add(s[5], sha1_k(t))),
                         w[t + 1])
    IN  <<temp, s[1], rotl(s[2], 30), s[3], s[4]>>

\* the 80 rounds: states holds the working variables before round 0 and after
\* each round done so far
RECURSIVE sha1_rounds(_, _)
sha1_rounds(states, w) ==
    IF Len(states) = 81 THEN states[81]
    ELSE sha1_rounds(Append(states, sha1_round(states[Len(states)], w, Len(states) - 1)), w)

\* the blocks from b on, starting from the chaining value h
RECURSIVE sha1_blocks(_, _, _)
sha1_blocks(h, padded, b) ==
    IF 64 * b >= Len(padded) THEN h
    ELSE LET s == sha1_rounds(<<h>>, sha1_schedule(sha1_block(padded, b)))
         IN  sha1_blocks([i \in 1..5 |-> word_add(h[i], s[i])], padded, b + 1)

\* hashlib.sha1(bytes).digest() as five words
sha1(bytes) ==
    sha1_blocks(<<<<26437, 8961>>, <<61389, 43913>>, <<39098, 56574>>,
                  <<4146, 21622>>, <<50130, 57840>>>>, sha1_pad(bytes), 0)

\* the 16 bytes of a UUID given as four words
uuid_bytes(u) ==
    [i \in 1..16 |->
        LET half == u[(i + 3) \div 4][IF (i - 1) % 4 < 2 THEN 1 ELSE 2]
        IN  IF i % 2 = 1 THEN half \div 256 ELSE half % 256]

\* uuid.uuid5(namespace, name): the first four words of the digest with the
\* version nibble set to 5 and the variant bits to 10
uuid5(namespace, name) ==
    LET digest == sha1(uuid_bytes(namespace) \o encode(name))
    IN  <<digest[1],
          <<digest[2][1], 20480 + (digest[2][2] % 4096)>>,
          <<32768 + (digest[3][1] % 16384), digest[3][2]>>,
          digest[4]>>

HexDigits == "0123456789abcdef"
hex4(half) ==
    LET h(n) == SubSeq(HexDigits, n + 1, n + 1)
    IN  h(half \div 4096) \o h((half \div 256) % 16) \o h((half \div 16) % 16) \o h(half % 16)

\* str(uuid)
uuid_str(u) ==
    hex4(u[1][1]) \o hex4(u[1][2]) \o "-" \o hex4(u[2][1]) \o "-" \o hex4(u[2][2]) \o "-"
        \o hex4(u[3][1]) \o "-" \o hex4(u[3][2]) \o hex4(u[4][1]) \o hex4(u[4][2])

\* uuid.NAMESPACE_DNS, 6ba7b810-9dad-11d1-80b4-00c04fd430c8
NAMESPACE_DNS == <<<<27559, 47120>>, <<40365, 4561>>, <<32948, 192>>, <<20436, 12488>>>>

format_name_unfilled(val) == "{name}"

\* "{name}".format(name=val): str(val) of a string or of None
format_name(val) == IF val.k = "none" THEN "None" ELSE val.v

\* uuid.uuid5(uuid.NAMESPACE_DNS, "datalad.org")
datalad_namespace == uuid5(NAMESPACE_DNS, "datalad.org")

get_dataset_id(raw_id) == Str(uuid_str(uuid5(datalad_namespace, raw_id)))

\* the names that are minted from
MintNames == {None, Str(""), Str("None"), Str("ds-a"), Str("ds-b"), Str("DS-A"), Str("ds-a ")}

\* mint_dataset_id of each of these names, computed once
minted_ids == [ds_name \in MintNames |-> get_dataset_id("abcd-j." \o format_name(ds_name))]

mint_dataset_id(ds_name) == minted_ids[ds_name]

-----------------------------------------------------------------------------
(* csv.DictWriter / csv.DictReader on the registry file *)

fieldnames == <<"dataset_type", "identifier", "version", "path_posix", "url">>

CsvCell_str_none(val) == IF val.k = "none" THEN "None" ELSE val.v

\* csv.writer turns None into the empty cell and writes a string as it is
\* (quoting of tabs and quotes is undone by the reader and is not modelled)
CsvCell(val) == IF val.k = "none" THEN "" ELSE val.v

\* DictWriter.writerow: one cell per fieldname, restval "" for a missing key
writerow(row) ==
    [i \in 1..Len(fieldnames) |->
        IF fieldnames[i] \in DOMAIN row.v THEN CsvCell(row.v[fieldnames[i]]) ELSE ""]

\* open("w"); writer.writeheader(); writer.writerow(r) for r in rows
WriteFile(rows) == <<fieldnames>> \o [i \in 1..Len(rows) |-> writerow(rows[i])]

\* open("r") reads with universal newlines: a carriage return inside a quoted
\* cell, alone or before a line feed, is read as a line feed
RECURSIVE translate_newlines(_)
translate_newlines(str) ==
    IF Len(str) = 0 THEN ""
    ELSE IF SubSeq(str, 1, 1) # "\r"
        THEN SubSeq(str, 1, 1) \o translate_newlines(SubSeq(str, 2, Len(str)))
    ELSE IF Len(str) > 1 /\ SubSeq(str, 2, 2) = "\n"
        THEN "\n" \o translate_newlines(SubSeq(str, 3, Len(str)))
    ELSE "\n" \o translate_newlines(SubSeq(str, 2, Len(str)))

universal_newlines(str) ==
    IF \A i \in 1..Len(str) : SubSeq(str, i, i) # "\r" THEN str ELSE translate_newlines(str)

\* csv.DictReader: the first line names the fields, every other line is a dict of strings
DictReader(lines) ==
    IF lines = <<>> THEN <<>>
    ELSE LET hdr == [n \in 1..Len(lines[1]) |-> universal_newlines(lines[1][n])] IN
         [i \in 1..(Len(lines) - 1) |->
             Dict([f \in Range(hdr) |->
                     LET j == CHOOSE n \in 1..Len(hdr) : hdr[n] = f IN
                     IF j <= Len(lines[i + 1])
                     THEN Str(universal_newlines(lines[i + 1][j]))
                     ELSE None])]

-----------------------------------------------------------------------------
(* The home record's subdatasets, as get_tabby_metadata returns them *)

\* load_tabby + jsonld.compact on the superdataset: the registry rows become the
\* document's "subdatasets" value; empty cells carry no key, a single row is
\* compacted to a single object, no row (or no file) leaves the key out.
compacted_subdatasets(exists, lines) ==
    LET rows == DictReader(lines)
        Obj(r) == Dict([f \in {g \in DOMAIN r.v : r.v[g] # Str("")} |-> r.v[f]])
    IN  IF ~exists \/ Len(rows) = 0 THEN None
        ELSE IF Len(rows) = 1 THEN Obj(rows[1])
        ELSE List([i \in 1..Len(rows) |-> Obj(rows[i])])

subds_item(subds) ==
    Dict([dataset_id      |-> Get(subds, "identifier", None),
          dataset_version |-> Get(subds, "version", None),
          dataset_path    |-> Get(subds, "path_posix", None),
          dataset_url     |-> Get(subds, "url", None)])

process_subdatasets(subdatasets) ==
    IF subdatasets.k = "none" THEN List(<<>>)
    ELSE IF subdatasets.k = "list"
        THEN IF \A i \in DOMAIN subdatasets.v : subdatasets.v[i].k = "dict"
             THEN List([i \in DOMAIN subdatasets.v |-> subds_item(subdatasets.v[i])])
             ELSE Raise("AttributeError")
    ELSE IF subdatasets.k = "dict" THEN List(<<subds_item(subdatasets)>>)
    ELSE None

\* home_dataset_record[0].get("subdatasets", []): a None value is stripped
\* from the record (get_tabby_metadata.py:137), so the default applies.
\* The home record is read from repo_path/data, which is taken to be the
\* superdataset args.dataset_path names, the one the registry file is in.
existing_subdatasets(exists, lines) ==
    LET val == process_subdatasets(compacted_subdatasets(exists, lines))
    IN  IF val.k = "none" THEN <<>> ELSE val.v

-----------------------------------------------------------------------------
(* utils.py: the field normalizers *)

known_keys == {"name", "email", "identifiers", "givenName", "familyName", "honorificSuffix"}

author_item_orcid_dropped(author) ==
    IF author.k # "dict" THEN Raise("AttributeError")
    ELSE Dict([f \in {g \in DOMAIN author.v : g \in known_keys /\ author.v[g] # None}
                 |-> author.v[f]])

\* the body of the loop of process_authors
author_item(author) ==
    IF author.k # "dict" THEN Raise("AttributeError")
    ELSE LET d == Dict([f \in {g \in DOMAIN author.v : g \in known_keys /\ author.v[g] # None}
                          |-> author.v[f]])
             orcid == Get(author, "orcid", PyBool(FALSE))
         IN  IF Truthy(orcid)
             THEN DictSet(d, "identifiers",
                          List(<<Dict([name |-> Str("ORCID"), identifier |-> orcid])>>))
             ELSE d

process_authors(authors) ==
    CASE authors.k = "none" -> None
      [] authors.k = "dict" -> comprehension(<<author_item(authors)>>)
      [] authors.k = "list" -> comprehension([i \in 1..Len(authors.v) |-> author_item(authors.v[i])])
      [] authors.k = "str"  -> IF authors.v = "" THEN List(<<>>) ELSE Raise("AttributeError")
      [] OTHER -> Raise("TypeError")

\* urlparse(license) decodes a non-empty value that is no str
process_license(license) ==
    IF license.k = "none" THEN None
    ELSE IF license.k # "str" /\ Truthy(license) THEN Raise("AttributeError")
    ELSE Dict([name |-> license, url |-> license])

\* the body of the loop of process_publications
publication_item(publication) ==
    IF publication.k = "list" THEN Raise("TypeError")
    ELSE IF publication.k # "dict" THEN Raise("AttributeError")
    ELSE LET citation == Get(publication, "citation", None)
             popped == Dict([f \in DOMAIN publication.v \ {"citation"} |-> publication.v[f]])
         IN  IF citation # None
             THEN DictSet(DictSet(popped, "title", citation), "authors", List(<<>>))
             ELSE popped

process_publications(publications) ==
    CASE publications.k = "none" -> None
      [] publications.k = "dict" -> comprehension(<<publication_item(publications)>>)
      [] publications.k = "list" ->
            comprehension([i \in 1..Len(publications.v) |-> publication_item(publications.v[i])])
      [] publications.k = "str"  ->
            IF publications.v = "" THEN List(<<>>) ELSE Raise("AttributeError")
      [] OTHER -> Raise("TypeError")

\* the publication object after the loop body ran on it: pop and the two
\* assignments act on the object that was passed in, which is also the object
\* appended to the result
publication_after(publication) ==
    IF publication.k = "dict" THEN publication_item(publication) ELSE publication

\* the value passed to process_publications after the call: the loop reaches
\* an entry when no earlier entry raised
publications_after(publications) ==
    CASE publications.k = "dict" -> publication_after(publications)
      [] publications.k = "list" ->
            List([i \in 1..Len(publications.v) |->
                    IF \A j \in 1..(i - 1) : publication_item(publications.v[j]).k # "raise"
                    THEN publication_after(publications.v[i])
                    ELSE publications.v[i]])
      [] OTHER -> publications

process_funding_unpromoted(funding) == funding

process_funding(funding) ==
    IF funding.k = "dict" THEN List(<<funding>>) ELSE funding

process_keywords(keywords) ==
    IF keywords.k = "str" THEN List(<<keywords>>) ELSE keywords

\* str.rpartition(" "): <<head, separator, tail>> around the last space
rpartition(str) ==
    LET spaces == {i \in 1..Len(str) : SubSeq(str, i, i) = " "}
    IN  IF spaces = {} THEN <<"", "", str>>
        ELSE LET i == CHOOSE n \in spaces : \A m \in spaces : m <= n
             IN  <<SubSeq(str, 1, i - 1), " ", SubSeq(str, i + 1, Len(str))>>

process_arc(data_controller) ==
    IF data_controller.k = "none" THEN None
    ELSE IF data_controller.k = "list" /\ Len(data_controller.v) = 0 THEN Raise("IndexError")
    ELSE LET dc == IF data_controller.k = "list" THEN data_controller.v[1] ELSE data_controller
         IN  IF dc.k # "dict" THEN Raise("AttributeError")
             ELSE LET name == Get(dc, "name", Str(""))
                  IN  IF name.k # "str" THEN Raise("AttributeError")
                      ELSE Dict([givenName  |-> Str(rpartition(name.v)[1]),
                                 familyName |-> Str(rpartition(name.v)[3]),
                                 email      |-> Get(dc, "email", Str(""))])

RECURSIVE process_data_controller(_)
process_data_controller(data_controller) ==
    IF data_controller.k = "none" THEN None
    ELSE IF data_controller.k = "list"
        THEN comprehension([i \in 1..Len(data_controller.v) |->
                               process_data_controller(data_controller.v[i])])
    ELSE IF data_controller.k # "dict" THEN Raise("TypeError")
    ELSE DictMerge(Dict([f \in {"@type"} |-> Str("https://schema.org/Person")]),
                   data_controller)

\* "\n\n".join(description)
RECURSIVE join(_)
join(parts) ==
    IF Len(parts) = 0 THEN ""
    ELSE IF Len(parts) = 1 THEN parts[1].v
    ELSE parts[1].v \o "\n\n" \o join(Tail(parts))

RECURSIVE process_used_for(_)
process_used_for(activity) ==
    IF activity.k = "list"
    THEN comprehension([i \in 1..Len(activity.v) |-> process_used_for(activity.v[i])])
    ELSE IF activity.k = "none" THEN None
    ELSE IF activity.k # "dict" THEN Raise("AttributeError")
    ELSE LET thing == Dict([f \in {"@type", "name"} |->
                              IF f = "@type" THEN Str("https://schema.org/Thing")
                              ELSE Get(activity, "title", Str(""))])
             url == Get(activity, "url", PyBool(FALSE))
             with_url == IF Truthy(url) THEN DictSet(thing, "url", url) ELSE thing
             description == Get(activity, "description", PyBool(FALSE))
         IN  IF ~Truthy(description) THEN with_url
             ELSE IF description.k # "list" THEN DictSet(with_url, "description", description)
             ELSE IF \E i \in 1..Len(description.v) : description.v[i].k # "str"
                  THEN Raise("TypeError")
             ELSE DictSet(with_url, "description", Str(join(description.v)))

\* int(x) of a string: surrounding blanks, an optional sign, decimal digits
\* (other white space and non-ASCII digits are not among the inputs)
Digits == "0123456789"
IsDigit(c) == \E i \in 1..Len(Digits) : SubSeq(Digits, i, i) = c
DigitValue(c) == (CHOOSE i \in 1..Len(Digits) : SubSeq(Digits, i, i) = c) - 1

RECURSIVE strip(_)
strip(str) ==
    IF Len(str) > 0 /\ SubSeq(str, 1, 1) = " " THEN strip(SubSeq(str, 2, Len(str)))
    ELSE IF Len(str) > 0 /\ SubSeq(str, Len(str), Len(str)) = " "
        THEN strip(SubSeq(str, 1, Len(str) - 1))
    ELSE str

\* the value of a digit string; single underscores between digits are skipped
RECURSIVE digits_value(_)
digits_value(str) ==
    IF Len(str) = 0 THEN 0
    ELSE IF SubSeq(str, Len(str), Len(str)) = "_"
        THEN digits_value(SubSeq(str, 1, Len(str) - 1))
    ELSE digits_value(SubSeq(str, 1, Len(str) - 1)) * 10
            + DigitValue(SubSeq(str, Len(str), Len(str)))

is_digit_string(str) ==
    /\ Len(str) > 0
    /\ IsDigit(SubSeq(str, 1, 1))
    /\ IsDigit(SubSeq(str, Len(str), Len(str)))
    /\ \A i \in 1..Len(str) : IsDigit(SubSeq(str, i, i)) \/ SubSeq(str, i, i) = "_"
    /\ \A i \in 1..(Len(str) - 1) : ~(SubSeq(str, i, i) = "_" /\ SubSeq(str, i + 1, i + 1) = "_")

int(val) ==
    IF val.k = "int" THEN val
    ELSE IF val.k # "str" THEN Raise("TypeError")
    ELSE LET str == strip(val.v)
             signed == Len(str) > 0 /\ SubSeq(str, 1, 1) \in {"+", "-"}
             body == IF signed THEN SubSeq(str, 2, Len(str)) ELSE str
         IN  IF ~is_digit_string(body) THEN Raise("ValueError")
             ELSE IF signed /\ SubSeq(str, 1, 1) = "-"
                  THEN PyInt(0 - digits_value(body))
                  ELSE PyInt(digits_value(body))

\* f.get(key, {}).get("@value")
get_value(f, key) ==
    LET item == Get(f, key, EmptyDict)
    IN  IF item.k # "dict" THEN Raise("AttributeError") ELSE Get(item, "@value", None)

process_file_keeps_keys(f) ==
    IF f.k # "dict" THEN Raise("AttributeError")
    ELSE LET path == get_value(f, "path")
             contentbytesize == get_value(f, "contentbytesize")
             use_name == Get(f, "path", None) = None /\ Get(f, "name", None) # None
             name == get_value(f, "name")
             size == IF Truthy(contentbytesize) THEN int(contentbytesize) ELSE contentbytesize
         IN  IF path.k = "raise" THEN path
             ELSE IF contentbytesize.k = "raise" THEN contentbytesize
             ELSE IF use_name /\ name.k = "raise" THEN name
             ELSE IF size.k = "raise" THEN size
             ELSE DictMerge(f, DropNone(Dict([path            |-> IF use_name THEN name ELSE path,
                                 contentbytesize |-> size,
                                 url             |-> Get(f, "url", None)])))

process_file(f) ==
    IF f.k # "dict" THEN Raise("AttributeError")
    ELSE LET path == get_value(f, "path")
             contentbytesize == get_value(f, "contentbytesize")
             use_name == Get(f, "path", None) = None /\ Get(f, "name", None) # None
             name == get_value(f, "name")
             size == IF Truthy(contentbytesize) THEN int(contentbytesize) ELSE contentbytesize
         IN  IF path.k = "raise" THEN path
             ELSE IF contentbytesize.k = "raise" THEN contentbytesize
             ELSE IF use_name /\ name.k = "raise" THEN name
             ELSE IF size.k = "raise" THEN size
             ELSE DropNone(Dict([path            |-> IF use_name THEN name ELSE path,
                                 contentbytesize |-> size,
                                 url             |-> Get(f, "url", None)]))

RECURSIVE process_homepage(_)
process_homepage(homepage) ==
    IF homepage.k = "none" THEN None
    ELSE IF homepage.k = "list"
        THEN comprehension([i \in 1..Len(homepage.v) |-> process_homepage(homepage.v[i])])
    ELSE Dict([f \in {"@type", "@value"} |->
                 IF f = "@type" THEN Str("https://schema.org/URL") ELSE homepage])

-----------------------------------------------------------------------------
(* queries.py: term enrichment *)

ols_lookup_raise_for_status(term, sess) ==
    IF term.k # "str" THEN Raise("AttributeError")
    ELSE LET r == sess[term.v]
         IN  IF r.status_code # 200 THEN Raise("HTTPError") ELSE r.json

\* ols_lookup: the session answers the request for the term; a status other
\* than 200 gives a warning and None
ols_lookup(term, sess) ==
    IF term.k # "str" THEN Raise("AttributeError")
    ELSE LET r == sess[term.v]
         IN  IF r.status_code # 200 THEN None ELSE r.json

repr_ncbitaxon(ols_response, default) ==
    IF ols_response.k = "none" THEN default
    ELSE LET species == Dict([f \in {"@type", "name", "preferredOntologyIdentifier"} |->
                                CASE f = "@type" ->
                                        Str("https://openminds.ebrains.eu/controlledTerms/Species")
                                  [] f = "name" -> Get(ols_response, "label", None)
                                  [] OTHER -> Get(ols_response, "iri", None)])
             given == Get(ols_response, "obo_synonym", List(<<>>))
             obo_synonym == IF given.k = "dict" THEN <<given>> ELSE given.v
             exact == {i \in 1..Len(obo_synonym) :
                          /\ Get(obo_synonym[i], "scope", None) = Str("hasExactSynonym")
                          /\ Get(obo_synonym[i], "type", None) = Str("genbank common name")}
         IN  IF exact = {} THEN species
             ELSE DictSet(species, "synonym",
                          Get(obo_synonym[CHOOSE i \in exact : \A j \in exact : i <= j],
                              "name", None))

repr_uberon(ols_response, default) ==
    IF ols_response.k = "none" THEN default
    ELSE Dict([f \in {"@type", "name", "preferredOntologyIdentifier"} |->
                 CASE f = "@type" ->
                         Str("https://openminds.ebrains.eu/controlledTerms/UBERONParcellation")
                   [] f = "name" -> Get(ols_response, "label", None)
                   [] OTHER -> Get(ols_response, "iri", None)])

\* filter_func(ols_lookup(t, session), t)
filtered_lookup(term, filter_func, sess) ==
    LET ols_response == ols_lookup(term, sess)
    IN  IF ols_response.k = "raise" THEN ols_response
        ELSE IF filter_func = "repr_ncbitaxon" THEN repr_ncbitaxon(ols_response, term)
        ELSE repr_uberon(ols_response, term)

process_ols_term(term, filter_func, sess) ==
    IF term.k = "list"
    THEN comprehension([i \in 1..Len(term.v) |-> filtered_lookup(term.v[i], filter_func, sess)])
    ELSE IF term.k = "str" THEN filtered_lookup(term, filter_func, sess)
    ELSE None

-----------------------------------------------------------------------------
(* get_tabby_metadata.py: the file records *)

\* datalad_catalog's get_metadata_item: the keys every record of a dataset shares
get_metadata_item(item_type, dataset_id, dataset_version, source_name, source_version) ==
    Dict([type            |-> Str(item_type),
          dataset_id      |-> dataset_id,
          dataset_version |-> dataset_version,
          metadata_sources |->
              Dict([sources |-> List(<<Dict([source_name    |-> Str(source_name),
                                             source_version |-> Str(source_version)])>>)])])

\* the file handling of get_tabby_metadata: fileList is compacted.get("fileList"),
\* None when the document has no such key
cat_file_listing(fileList, file_required_meta) ==
    LET all_files == IF fileList.k = "none" THEN <<>>
                     ELSE IF fileList.k # "list" THEN <<fileList>>
                     ELSE fileList.v
        cat_file(file_info) ==
            LET fields == process_file(file_info)
            IN  IF fields.k = "raise" THEN fields ELSE DictMerge(file_required_meta, fields)
    IN  comprehension([i \in 1..Len(all_files) |-> cat_file(all_files[i])])

-----------------------------------------------------------------------------
(* get_tabby_metadata.py: the assembler, from the compacted document on     *)
(* (load_tabby and jsonld.compact are library calls that give the document) *)

\* the explicit context of the additional display content
additional_context ==
    Dict([f \in {"homepage", "data controller", "sample (organism)",
                 "sample (organism part)", "used for"} |->
            CASE f = "homepage" -> Str("https://schema.org/mainEntityOfPage")
              [] f = "data controller" -> Str("https://w3id.org/dpv#hasDataController")
              [] f = "sample (organism)" ->
                    Str("https://openminds.ebrains.eu/controlledTerms/Species")
              [] f = "sample (organism part)" ->
                    Str("https://openminds.ebrains.eu/controlledTerms/UBERONParcellation")
              [] OTHER -> Str("http://www.w3.org/ns/prov#hadUsage")])

\* id_source after the validation: a dataset_path forces datalad_dataset
applied_id_source(id_src, ds) == IF ds # None THEN "datalad_dataset" ELSE id_src

\* the dataset id and version the id source gives; dataset.id of no dataset
\* is an AttributeError
select_dataset_id(compacted, id_src, ds) ==
    CASE id_src = "tabby_mint" -> mint_dataset_id(Get(compacted, "name", None))
      [] id_src = "tabby_direct" -> Get(compacted, "name", None)
      [] id_src = "datalad_dataset" -> IF ds = None THEN Raise("AttributeError") ELSE ds.id

select_dataset_version(compacted, id_src, ds) ==
    CASE id_src \in {"tabby_mint", "tabby_direct"} -> Get(compacted, "version", Str("latest"))
      [] id_src = "datalad_dataset" -> IF ds = None THEN Raise("AttributeError") ELSE ds.hexsha

\* lines 129-135: the additional display content, its None values removed
additional_display(organism, part, homepage, controller, used_for) ==
    LET additional_content ==
            Dict([f \in {"@context", "sample (organism)", "sample (organism part)",
                         "homepage", "data controller", "used for"} |->
                    CASE f = "@context" -> additional_context
                      [] f = "sample (organism)" -> organism
                      [] f = "sample (organism part)" -> part
                      [] f = "homepage" -> homepage
                      [] f = "data controller" -> controller
                      [] OTHER -> used_for])
    IN  List(<<Dict([name    |-> Str("ABCD-J"),
                     icon    |-> Str("fa-solid fa-graduation-cap"),
                     content |-> DropNone(additional_content)])>>)

\* lines 86-135: the dataset record from the values the id source and the
\* normalizers gave, before the None values are removed; the values are
\* computed in the order of the source, the first exception ends the call
meta_item_of(compacted, dataset_id, dataset_version, license, authors, keywords, funding, publications, arc, subdatasets, organism, part, homepage, controller, used_for) ==
    LET computed == comprehension(<<dataset_id, dataset_version, license, authors, keywords,
                                    funding, publications, arc, subdatasets, organism, part,
                                    homepage, controller, used_for>>)
    IN  IF computed.k = "raise" THEN computed
        ELSE DictMerge(
                get_metadata_item("dataset", dataset_id, dataset_version, "tabby", "0.1.0"),
                Dict([name         |-> Get(compacted, "title", Str("")),
                      license      |-> license,
                      description  |-> Get(compacted, "description", Str("")),
                      doi          |-> Get(compacted, "doi", Str("")),
                      authors      |-> authors,
                      keywords     |-> keywords,
                      funding      |-> funding,
                      publications |-> publications,
                      access_request_contact |-> arc,
                      subdatasets  |-> subdatasets,
                      url          |-> Get(compacted, "homepage", None),
                      additional_display |->
                          additional_display(organism, part, homepage, controller, used_for)]))

\* lines 72-135: the id source and every normalizer applied to its field
dataset_meta_item(compacted, id_src, ds, sess) ==
    meta_item_of(compacted,
                 select_dataset_id(compacted, id_src, ds),
                 select_dataset_version(compacted, id_src, ds),
                 process_license(Get(compacted, "license", None)),
                 process_authors(Get(compacted, "authors", None)),
                 process_keywords(Get(compacted, "keywords", None)),
                 process_funding(Get(compacted, "funding", None)),
                 process_publications(Get(compacted, "publications", None)),
                 process_arc(Get(compacted, "dataController", None)),
                 process_subdatasets(Get(compacted, "subdatasets", None)),
                 process_ols_term(Get(compacted, "sampleOrganism", None), "repr_ncbitaxon", sess),
                 process_ols_term(Get(compacted, "samplePart", None), "repr_uberon", sess),
                 process_homepage(Get(compacted, "homepage", None)),
                 process_data_controller(Get(compacted, "dataController", None)),
                 process_used_for(Get(compacted, "usedFor", None)))

\* the compacted document after the call: process_publications (line 101) acts
\* on the object the document holds, when the lines before it did not raise
compacted_after(compacted, id_src, ds) ==
    LET before == comprehension(<<select_dataset_id(compacted, id_src, ds),
                                  select_dataset_version(compacted, id_src, ds),
                                  process_license(Get(compacted, "license", None)),
                                  process_authors(Get(compacted, "authors", None)),
                                  process_keywords(Get(compacted, "keywords", None)),
                                  process_funding(Get(compacted, "funding", None))>>)
    IN  IF "publications" \notin DOMAIN compacted.v \/ before.k = "raise" THEN compacted
        ELSE DictSet(compacted, "publications", publications_after(compacted.v["publications"]))

\* lines 145-163: the file records under the shared keys of the dataset
\* record, after it
records_of(compacted, meta_item) ==
    LET required == get_metadata_item("file", Get(meta_item, "dataset_id", None),
                                      Get(meta_item, "dataset_version", None),
                                      "tabby", "0.1.0")
        files == cat_file_listing(Get(compacted, "fileList", None), required)
    IN  IF files.k = "raise" THEN files
        ELSE List(<<meta_item>> \o files.v)

\* line 137 on: the None values are removed from the dataset record
strip_and_list(compacted, full) ==
    IF full.k = "raise" THEN full ELSE records_of(compacted, DropNone(full))

\* get_tabby_metadata(tabby_path, dataset_path, id_source): ds is the datalad
\* dataset at dataset_path, None when tabby_path is given instead
get_tabby_metadata(compacted, id_source_arg, ds, sess) ==
    strip_and_list(compacted,
                   dataset_meta_item(compacted, applied_id_source(id_source_arg, ds), ds, sess))

-----------------------------------------------------------------------------
(* process_subdirectory.py, steps 2 to 4 *)

build_subdataset_always_url(dataset_type, subds_id, subds_version, subds_url, subds_path) ==
    Dict([dataset_type |-> Str(IF dataset_type = "datalad" THEN "DATALAD" ELSE "OTHER"),
          identifier   |-> subds_id,
          version      |-> subds_version,
          path_posix   |-> subds_path,
          url          |-> subds_url])

\* the subdataset reference of step 2
build_subdataset(dataset_type, subds_id, subds_version, subds_url, subds_path) ==
    LET base == [dataset_type |-> Str(IF dataset_type = "datalad" THEN "DATALAD" ELSE "OTHER"),
                 identifier   |-> subds_id,
                 version      |-> subds_version,
                 path_posix   |-> subds_path]
    IN  IF dataset_type = "datalad"
        THEN Dict([f \in DOMAIN base \cup {"url"} |-> IF f = "url" THEN subds_url ELSE base[f]])
        ELSE Dict(base)

find_subdataset_any_version(existing, subds_id, subds_version, subds_path) ==
    SelectSeq(existing, LAMBDA s : /\ s.v["dataset_id"] = subds_id
                                   /\ s.v["dataset_path"] = subds_path)

find_subdataset_none(existing, subds_id, subds_version, subds_path) == <<>>

find_subdataset(existing, subds_id, subds_version, subds_path) ==
    SelectSeq(existing, LAMBDA s : /\ s.v["dataset_id"] = subds_id
                                   /\ s.v["dataset_version"] = subds_version
                                   /\ s.v["dataset_path"] = subds_path)

find_subds_prior(existing, subds_id, subds_version, subds_path) ==
    SelectSeq(existing, LAMBDA s : /\ s.v["dataset_id"] = subds_id
                                   /\ s.v["dataset_version"] # subds_version
                                   /\ s.v["dataset_path"] = subds_path)

prior_subds_i_never(all_rows, subds_id, subds_version, subds_path) == -1

prior_subds_i_any_path(all_rows, subds_id, subds_version, subds_path) ==
    LET hits == {i \in 1..Len(all_rows) :
                    /\ all_rows[i].v["identifier"] = subds_id
                    /\ all_rows[i].v["version"] # subds_version}
    IN  IF hits = {} THEN -1
        ELSE (CHOOSE i \in hits : \A j \in hits : i <= j) - 1

\* next((i for i, item in enumerate(all_rows) if ...), -1): a 0-based index
prior_subds_i(all_rows, subds_id, subds_version, subds_path) ==
    LET hits == {i \in 1..Len(all_rows) :
                    /\ all_rows[i].v["identifier"] = subds_id
                    /\ all_rows[i].v["version"] # subds_version
                    /\ all_rows[i].v["path_posix"] = subds_path}
    IN  IF hits = {} THEN -1
        ELSE (CHOOSE i \in hits : \A j \in hits : i <= j) - 1

update_rows_move_to_end(all_rows, i, subds) ==
    IF i > -1
    THEN Append(SubSeq(all_rows, 1, i) \o SubSeq(all_rows, i + 2, Len(all_rows)), subds)
    ELSE Append(all_rows, subds)

update_rows_insert_first(all_rows, i, subds) ==
    IF i > -1
    THEN [all_rows EXCEPT ![i + 1] = subds]
    ELSE <<subds>> \o all_rows

update_rows_only_candidate(all_rows, i, subds) == <<subds>>

\* all_rows[prior_subds_i] = subdataset, or all_rows.append(subdataset)
update_rows(all_rows, i, subds) ==
    IF i > -1
    THEN [all_rows EXCEPT ![i + 1] = subds]
    ELSE Append(all_rows, subds)

\* an effect of a run on the world outside it
Event(call, record, config) == [call |-> call, record |-> record, config |-> config]

\* step 6 and 7: the records added to the catalog and the home that is set;
\* record_types are the types of subds_tabby_records, home_records is the
\* number of home_tabby_records
catalog_events_home_always(ignore, add_to_catalog, add_type, hide_access_request, record_types, home_records) ==
    LET cfg_fname == IF hide_access_request THEN "subds-config-hide-access-request.json"
                     ELSE "subds-config.json"
        subds_records_to_add ==
            IF add_type = "both" THEN record_types
            ELSE SelectSeq(record_types, LAMBDA type : type = add_type)
    IN  IF ~add_to_catalog THEN <<>>
        ELSE <<Event("catalog_add", "super core", "superds-config.json")>>
             \o [i \in 1..home_records |-> Event("catalog_add", "super tabby", "superds-config.json")]
             \o [i \in 1..Len(subds_records_to_add) |->
                    Event("catalog_add", "subds " \o subds_records_to_add[i], cfg_fname)]
             \o <<Event("catalog_set", "home", "")>>

catalog_events(ignore, add_to_catalog, add_type, hide_access_request, record_types, home_records) ==
    LET cfg_fname == IF hide_access_request THEN "subds-config-hide-access-request.json"
                     ELSE "subds-config.json"
        subds_records_to_add ==
            IF add_type = "both" THEN record_types
            ELSE SelectSeq(record_types, LAMBDA type : type = add_type)
    IN  IF ~add_to_catalog THEN <<>>
        ELSE (IF ~ignore
              THEN <<Event("catalog_add", "super core", "superds-config.json")>>
                   \o [i \in 1..home_records |->
                          Event("catalog_add", "super tabby", "superds-config.json")]
              ELSE <<>>)
             \o [i \in 1..Len(subds_records_to_add) |->
                    Event("catalog_add", "subds " \o subds_records_to_add[i], cfg_fname)]
             \o (IF ~ignore THEN <<Event("catalog_set", "home", "")>> ELSE <<>>)

\* steps 3 to 5: the registry write, ds.save and get_super_metadata
registry_events_save_after_extract(write, save) ==
    (IF write THEN <<Event("write", "registry", "")>> ELSE <<>>)
    \o <<Event("get_super_metadata", "", "")>>
    \o (IF save THEN <<Event("save", "superdataset", "")>> ELSE <<>>)

registry_events(write, save) ==
    (IF write THEN <<Event("write", "registry", "")>> ELSE <<>>)
    \o (IF save THEN <<Event("save", "superdataset", "")>> ELSE <<>>)
    \o <<Event("get_super_metadata", "", "")>>

\* One run of process_subdirectory.py from step 2 on, on the reference the
\* subdirectory's dataset record and the arguments give.
Run(dataset_type, subds_id, subds_version, subds_url, subds_path, ignore, add_to_catalog, add_type, hide_access_request, record_types, home_records) ==
    LET subds == build_subdataset(dataset_type, subds_id, subds_version, subds_url, subds_path)
        existing == existing_subdatasets(fileExists, tsv)
        found == find_subdataset(existing, subds_id, subds_version, subds_path)
        all_rows == DictReader(tsv)
        new_rows == IF ~fileExists THEN <<subds>>
                    ELSE update_rows(all_rows,
                                     prior_subds_i(all_rows, subds_id, subds_version, subds_path),
                                     subds)
        write == Len(found) = 0 /\ ~ignore
    IN  /\ runs < MaxRuns
        /\ runs' = runs + 1
        /\ UNCHANGED <<norm_vars, asm_vars, mint_vars, conc_vars>>
        /\ subdataset' = subds
        /\ ignore_super' = ignore
        /\ prev_exists' = fileExists
        /\ prev_tsv' = tsv
        /\ repeated' = (runs > 0 /\ ~ignore_super /\ ~ignore /\ subds = subdataset)
        /\ subdataset_added' = write
        /\ saved' = (write /\ ~ignore)
        /\ events' = registry_events(write, write /\ ~ignore)
                        \o catalog_events(ignore, add_to_catalog, add_type, hide_access_request,
                                          record_types, home_records)
        /\ IF write
           THEN /\ fileExists' = TRUE
                /\ tsv' = WriteFile(new_rows)
                /\ written' = List(new_rows)
           ELSE /\ UNCHANGED <<fileExists, tsv>>
                /\ written' = None

Init ==
    /\ fileExists \in BOOLEAN
    /\ tsv = IF fileExists THEN <<fieldnames>> ELSE <<>>
    /\ subdataset = None
    /\ ignore_super = FALSE
    /\ subdataset_added = FALSE
    /\ written = None
    /\ saved = FALSE
    /\ prev_exists = fileExists
    /\ prev_tsv = tsv
    /\ repeated = FALSE
    /\ runs = 0
    /\ events = <<>>
    /\ fn = "none"
    /\ arg = None
    /\ result = None
    /\ session = <<>>
    /\ arg_after = None
    /\ id_source = "none"
    /\ dataset = None
    /\ minted = <<>>
    /\ pc = [p \in Procs |-> "start"]
    /\ cand = [p \in Procs |-> None]
    /\ all_rows_of = [p \in Procs |-> <<>>]
    /\ overlapped = FALSE

Next ==
    \E dataset_type \in DatasetTypes, key \in Keys, ver \in Versions, ignore \in BOOLEAN :
        \E url \in Urls(dataset_type) :
            Run(dataset_type, Str(key[1]), Str(ver), url, Str(key[2]), ignore,
                FALSE, "both", FALSE, <<"dataset">>, 1)

Spec == Init /\ [][Next]_vars

\* Runs with the catalog arguments: --add-to-catalog, --add-type and
\* --hide-access-request, on a subdirectory whose tabby files give the records
\* of these types
MaxPipelineRuns == 2
AddTypes == {"dataset", "file", "both"}
SubdsRecordTypes == {<<"dataset">>, <<"dataset", "file", "file">>}
\* len(home_tabby_records): the superdataset's dataset record and one file record
HomeRecords == 2

NextPipeline ==
    \E key \in Keys, ver \in Versions, ignore \in BOOLEAN, add_to_catalog \in BOOLEAN,
       add_type \in AddTypes, hide_access_request \in BOOLEAN,
       record_types \in SubdsRecordTypes :
        /\ runs < MaxPipelineRuns
        /\ Run("other", Str(key[1]), Str(ver), None, Str(key[2]), ignore,
               add_to_catalog, add_type, hide_access_request, record_types, HomeRecords)

SpecPipeline == Init /\ [][NextPipeline]_vars

-----------------------------------------------------------------------------
(* Calls of the normalizers on raw values of every shape *)

Wrapped(str) == Dict([f \in {"@value"} |-> Str(str)])

\* single objects, some with keys missing, and typed-value wrappers
Objects ==
    { Dict([name |-> Str("A B"), orcid |-> Str("0000-0001-2345-6789"), affiliation |-> Str("U")]),
      Dict([name |-> Str("C D"), email |-> None]),
      Dict([name |-> Str("E F"), orcid |-> Str(""), email |-> Str("e@example.org")]),
      Dict([citation |-> Str("Doe 2020"), doi |-> Str("10.1/x")]),
      Dict([name |-> Str("Jane van Doe"), email |-> Str("j@example.org")]),
      Dict([title |-> Str("T"), url |-> Str("https://example.org/t"),
            description |-> List(<<Str("p1"), Str("p2")>>)]),
      Dict([path |-> Wrapped("a/b.txt"), contentbytesize |-> Wrapped("120"),
            url |-> Str("https://example.org/f")]),
      Dict([name |-> Wrapped("c.txt"), contentbytesize |-> Wrapped("12 kB")]),
      Dict([path |-> Str("a/b.txt"), contentbytesize |-> Wrapped("")]),
      Dict([path |-> Wrapped("e.txt"), contentbytesize |-> Wrapped("")]),
      Dict([name |-> Wrapped("g.txt"), contentbytesize |-> Wrapped("7")]),
      Dict([identifier |-> Str("X"), version |-> Str("v1"), path_posix |-> Str("sub")]),
      Wrapped("120"),
      EmptyDict }

Scalars == {Str("NCBITaxon:9606"), Str("UBERON:0013702"), Str(""), PyInt(120)}

Lists ==
    {List(<<>>)}
        \cup {List(<<x>>) : x \in Objects \cup Scalars}
        \cup {List(<<x, y>>) : x \in {Str("NCBITaxon:9606")}, y \in Scalars \ {PyInt(120)}}
        \cup {List(<<x, y>>) : x \in {Dict([name |-> Str("C D"), email |-> None])}, y \in Objects}

\* absent, scalar, typed-value wrapper, single object, list
RawValues == {None} \cup Scalars \cup Objects \cup Lists

\* what the ontology service may answer for a term
Responses ==
    { [status_code |-> 404, json |-> None],
      [status_code |-> 200,
       json |-> Dict([label |-> Str("Homo sapiens"), iri |-> Str("http://purl.obolibrary.org/obo/T"),
                      obo_synonym |-> Dict([scope |-> Str("hasExactSynonym"),
                                            type  |-> Str("genbank common name"),
                                            name  |-> Str("human")])])],
      [status_code |-> 200,
       json |-> Dict([label |-> Str("limb"), iri |-> Str("http://purl.obolibrary.org/obo/U")])] }

\* the terms a call of process_ols_term looks up
TermsOf(term) ==
    IF term.k = "str" THEN {term.v}
    ELSE IF term.k = "list" THEN {x.v : x \in {y \in Range(term.v) : y.k = "str"}}
    ELSE {}

NoSession == [t \in {} |-> None]

\* the shared keys of the file records of some dataset
file_required_meta == get_metadata_item("file", Str("ds-1"), Str("latest"), "tabby", "0.1.0")

Normalize(name, x, sess) ==
    CASE name = "process_authors"         -> process_authors(x)
      [] name = "process_license"         -> process_license(x)
      [] name = "process_publications"    -> process_publications(x)
      [] name = "process_funding"         -> process_funding(x)
      [] name = "process_keywords"        -> process_keywords(x)
      [] name = "process_arc"             -> process_arc(x)
      [] name = "process_data_controller" -> process_data_controller(x)
      [] name = "process_used_for"        -> process_used_for(x)
      [] name = "process_homepage"        -> process_homepage(x)
      [] name = "process_subdatasets"     -> process_subdatasets(x)
      [] name = "process_file"            -> process_file(x)
      [] name = "cat_file_listing"        -> cat_file_listing(x, file_required_meta)
      [] name = "process_ols_term(repr_ncbitaxon)" -> process_ols_term(x, "repr_ncbitaxon", sess)
      [] name = "process_ols_term(repr_uberon)"    -> process_ols_term(x, "repr_uberon", sess)

Call_process_authors ==
    \E x \in RawValues :
        /\ fn' = "process_authors"
        /\ arg' = x
        /\ arg_after' = x
        /\ session' = NoSession
        /\ result' = Normalize("process_authors", x, NoSession)
        /\ UNCHANGED <<registry_vars, asm_vars, mint_vars, conc_vars>>

Call_process_license ==
    \E x \in RawValues :
        /\ fn' = "process_license"
        /\ arg' = x
        /\ arg_after' = x
        /\ session' = NoSession
        /\ result' = Normalize("process_license", x, NoSession)
        /\ UNCHANGED <<registry_vars, asm_vars, mint_vars, conc_vars>>

Call_process_publications ==
    \E x \in RawValues :
        /\ fn' = "process_publications"
        /\ arg' = x
        /\ arg_after' = publications_after(x)
        /\ session' = NoSession
        /\ result' = Normalize("process_publications", x, NoSession)
        /\ UNCHANGED <<registry_vars, asm_vars, mint_vars, conc_vars>>

Call_process_funding ==
    \E x \in RawValues :
        /\ fn' = "process_funding"
        /\ arg' = x
        /\ arg_after' = x
        /\ session' = NoSession
        /\ result' = Normalize("process_funding", x, NoSession)
        /\ UNCHANGED <<registry_vars, asm_vars, mint_vars, conc_vars>>

Call_process_keywords ==
    \E x \in RawValues :
        /\ fn' = "process_keywords"
        /\ arg' = x
        /\ arg_after' = x
        /\ session' = NoSession
        /\ result' = Normalize("process_keywords", x, NoSession)
        /\ UNCHANGED <<registry_vars, asm_vars, mint_vars, conc_vars>>

Call_process_arc ==
    \E x \in RawValues :
        /\ fn' = "process_arc"
        /\ arg' = x
        /\ arg_after' = x
        /\ session' = NoSession
        /\ result' = Normalize("process_arc", x, NoSession)
        /\ UNCHANGED <<registry_vars, asm_vars, mint_vars, conc_vars>>

Call_process_data_controller ==
    \E x \in RawValues :
        /\ fn' = "process_data_controller"
        /\ arg' = x
        /\ arg_after' = x
        /\ session' = NoSession
        /\ result' = Normalize("process_data_controller", x, NoSession)
        /\ UNCHANGED <<registry_vars, asm_vars, mint_vars, conc_vars>>

Call_process_used_for ==
    \E x \in RawValues :
        /\ fn' = "process_used_for"
        /\ arg' = x
        /\ arg_after' = x
        /\ session' = NoSession
        /\ result' = Normalize("process_used_for", x, NoSession)
        /\ UNCHANGED <<registry_vars, asm_vars, mint_vars, conc_vars>>

Call_process_homepage ==
    \E x \in RawValues :
        /\ fn' = "process_homepage"
        /\ arg' = x
        /\ arg_after' = x
        /\ session' = NoSession
        /\ result' = Normalize("process_homepage", x, NoSession)
        /\ UNCHANGED <<registry_vars, asm_vars, mint_vars, conc_vars>>

Call_process_subdatasets ==
    \E x \in RawValues :
        /\ fn' = "process_subdatasets"
        /\ arg' = x
        /\ arg_after' = x
        /\ session' = NoSession
        /\ result' = Normalize("process_subdatasets", x, NoSession)
        /\ UNCHANGED <<registry_vars, asm_vars, mint_vars, conc_vars>>

Call_process_file ==
    \E x \in RawValues :
        /\ fn' = "process_file"
        /\ arg' = x
        /\ arg_after' = x
        /\ session' = NoSession
        /\ result' = Normalize("process_file", x, NoSession)
        /\ UNCHANGED <<registry_vars, asm_vars, mint_vars, conc_vars>>

Call_cat_file_listing ==
    \E x \in RawValues :
        /\ fn' = "cat_file_listing"
        /\ arg' = x
        /\ arg_after' = x
        /\ session' = NoSession
        /\ result' = Normalize("cat_file_listing", x, NoSession)
        /\ UNCHANGED <<registry_vars, asm_vars, mint_vars, conc_vars>>

Call_process_ols_term ==
    \E x \in RawValues, filter_func \in {"repr_ncbitaxon", "repr_uberon"} :
        \E sess \in [TermsOf(x) -> Responses] :
            /\ fn' = "process_ols_term(" \o filter_func \o ")"
            /\ arg' = x
            /\ arg_after' = x
            /\ session' = sess
            /\ result' = Normalize("process_ols_term(" \o filter_func \o ")", x, sess)
            /\ UNCHANGED <<registry_vars, asm_vars, mint_vars, conc_vars>>

NextNorm ==
    \/ Call_process_authors
    \/ Call_process_license
    \/ Call_process_publications
    \/ Call_process_funding
    \/ Call_process_keywords
    \/ Call_process_arc
    \/ Call_process_data_controller
    \/ Call_process_used_for
    \/ Call_process_homepage
    \/ Call_process_subdatasets
    \/ Call_process_file
    \/ Call_cat_file_listing
    \/ Call_process_ols_term

SpecNorm == Init /\ [][NextNorm]_vars

-----------------------------------------------------------------------------
(* Calls of the assembler: one call of get_tabby_metadata per program run   *)
(* (get_tabby_metadata.py:192), on the documents the loader may give        *)

\* a document holds the keys that have a value
Document(fields) == DropNone(Dict(fields))

DocNames == {None, Str("ds-a"), Str("ds-b")}
DocVersions == {None, Str("1.0")}

DocSubdatasets ==
    { None,
      Dict([dataset_type |-> Str("OTHER"), identifier |-> Str("X"), version |-> Str("v1"),
            path_posix |-> Str("sub")]),
      List(<<Dict([dataset_type |-> Str("DATALAD"), identifier |-> Str("Y"),
                   version |-> Str("v2"), path_posix |-> Str("sub2"),
                   url |-> Str("https://example.org/y")]),
             Dict([dataset_type |-> Str("OTHER"), identifier |-> Str("X"),
                   version |-> Str("v1"), path_posix |-> Str("sub")])>>) }

FileWithPath ==
    Dict([path |-> Wrapped("a/b.txt"), contentbytesize |-> Wrapped("120"),
          url |-> Str("https://example.org/f")])
\* a file that is named by name and has keys of its own for the shared ones
FileWithName ==
    Dict([name |-> Wrapped("c.txt"), contentbytesize |-> Wrapped("7"),
          type |-> Str("dataset"), dataset_id |-> Str("other"),
          dataset_version |-> Str("other")])
FileWithBadSize == Dict([path |-> Wrapped("d.txt"), contentbytesize |-> Wrapped("12 kB")])

DocFileLists ==
    { None,
      List(<<>>),
      FileWithPath,
      List(<<FileWithPath, FileWithName>>),
      List(<<FileWithPath, FileWithBadSize, FileWithName>>) }

DocOrganisms ==
    {None, Str("NCBITaxon:9606"), List(<<Str("NCBITaxon:9606"), Str("NCBITaxon:10090")>>)}

\* the other fields: all of them given, or none
DocOtherFields(given) ==
    IF ~given THEN [title |-> None]
    ELSE [title          |-> Str("A dataset"),
          description    |-> Str("About it"),
          doi            |-> Str("10.1/x"),
          license        |-> Str("https://creativecommons.org/licenses/by/4.0/"),
          authors        |-> Dict([name |-> Str("A B"), orcid |-> Str("0000-0001-2345-6789"),
                                   affiliation |-> Str("U")]),
          keywords       |-> Str("brain"),
          funding        |-> Dict([name |-> Str("DFG"), identifier |-> Str("431549029")]),
          publications   |-> Dict([citation |-> Str("Doe 2020"), doi |-> Str("10.1/y")]),
          dataController |-> Dict([name |-> Str("Jane van Doe"), email |-> Str("j@example.org")]),
          homepage       |-> Str("https://example.org/home"),
          samplePart     |-> Str("UBERON:0013702"),
          usedFor        |-> Dict([title |-> Str("T"), url |-> Str("https://example.org/t")])]

Documents ==
    { Document([f \in {"name", "version", "subdatasets", "fileList", "sampleOrganism"}
                      \cup DOMAIN DocOtherFields(given) |->
                  CASE f = "name" -> name
                    [] f = "version" -> version
                    [] f = "subdatasets" -> subdatasets
                    [] f = "fileList" -> fileList
                    [] f = "sampleOrganism" -> organism
                    [] OTHER -> DocOtherFields(given)[f]]) :
        name \in DocNames, version \in DocVersions, subdatasets \in DocSubdatasets,
        fileList \in DocFileLists, organism \in DocOrganisms, given \in BOOLEAN }

IdSources == {"tabby_mint", "tabby_direct", "datalad_dataset"}

\* the datalad dataset at dataset_path: its id and the revision it is at
InstalledDataset == [id |-> Str("5df8eb3a-95c5-11ea-b4b9-a0369f287950"), hexsha |-> Str("0a1b2c3")]

\* the terms of a document the ontology service is asked about
DocTerms(doc) ==
    TermsOf(Get(doc, "sampleOrganism", None)) \cup TermsOf(Get(doc, "samplePart", None))

\* the term is unknown to the service, or it is found
DocResponses == {r \in Responses : r.status_code = 404 \/ "obo_synonym" \in DOMAIN r.json.v}

\* get_tabby_metadata(tabby_path=..., dataset_path=None, id_source=...)
Assemble_tabby_path ==
    \E doc \in Documents, id_src \in IdSources :
        \E sess \in [DocTerms(doc) -> DocResponses] :
            /\ fn = "none"
            /\ fn' = "get_tabby_metadata"
            /\ arg' = doc
            /\ session' = sess
            /\ id_source' = id_src
            /\ dataset' = None
            /\ arg_after' = compacted_after(doc, applied_id_source(id_src, None), None)
            /\ result' = get_tabby_metadata(doc, id_src, None, sess)
            /\ UNCHANGED <<registry_vars, mint_vars, conc_vars>>

\* get_tabby_metadata(tabby_path=None, dataset_path=..., id_source=...)
Assemble_dataset_path ==
    \E doc \in Documents, id_src \in IdSources :
        \E sess \in [DocTerms(doc) -> DocResponses] :
            /\ fn = "none"
            /\ fn' = "get_tabby_metadata"
            /\ arg' = doc
            /\ session' = sess
            /\ id_source' = id_src
            /\ dataset' = InstalledDataset
            /\ arg_after' = compacted_after(doc, applied_id_source(id_src, InstalledDataset),
                                            InstalledDataset)
            /\ result' = get_tabby_metadata(doc, id_src, InstalledDataset, sess)
            /\ UNCHANGED <<registry_vars, mint_vars, conc_vars>>

NextAsm ==
    \/ Assemble_tabby_path
    \/ Assemble_dataset_path

SpecAsm == Init /\ [][NextAsm]_vars

-----------------------------------------------------------------------------
(* Calls of the identifier minter *)

MaxMints == 3

\* mint_dataset_id(name)
Mint ==
    \E ds_name \in MintNames :
        /\ Len(minted) < MaxMints
        /\ minted' = Append(minted, <<ds_name, mint_dataset_id(ds_name)>>)
        /\ UNCHANGED <<registry_vars, norm_vars, asm_vars, conc_vars>>

NextMint == Mint

SpecMint == Init /\ [][NextMint]_vars

-----------------------------------------------------------------------------
(* Runs of process_subdirectory.py that overlap, each without               *)
(* --ignore-super.  A run touches the registry file three times: it reads   *)
(* the home record (lines 79-96), it tests for the file and reads its rows  *)
(* (lines 107, 113-129), and it writes the file (lines 108-111, 131-135).   *)
(* Nothing in the script locks the file, so the runs' steps interleave      *)
(* freely.  Each of the three is taken as one step; the rewrite truncates   *)
(* and fills the file in one step, the coarsest grain the script allows.    *)

Started(p) == pc[p] \in {"decided", "loaded"}
OthersStarted(p) == \E q \in Procs \ {p} : Started(q)

\* lines 79-96: the home record is read and the candidate is looked up in it
Conc_find_subdataset(p, dataset_type, subds_id, subds_version, subds_url, subds_path) ==
    LET subds == build_subdataset(dataset_type, subds_id, subds_version, subds_url, subds_path)
        existing == existing_subdatasets(fileExists, tsv)
        found == find_subdataset(existing, subds_id, subds_version, subds_path)
    IN  /\ pc[p] = "start"
        /\ cand' = [cand EXCEPT ![p] = subds]
        /\ pc' = [pc EXCEPT ![p] = IF Len(found) = 0 THEN "decided" ELSE "done"]
        /\ overlapped' = (overlapped \/ OthersStarted(p))
        /\ UNCHANGED <<registry_vars, norm_vars, asm_vars, mint_vars, all_rows_of>>

\* line 107 and lines 113-129: the rows the run is going to write
Conc_read_rows(p) ==
    LET subds == cand[p]
        all_rows == DictReader(tsv)
        new_rows == IF ~fileExists THEN <<subds>>
                    ELSE update_rows(all_rows,
                                     prior_subds_i(all_rows, subds.v["identifier"],
                                                   subds.v["version"], subds.v["path_posix"]),
                                     subds)
    IN  /\ pc[p] = "decided"
        /\ all_rows_of' = [all_rows_of EXCEPT ![p] = new_rows]
        /\ pc' = [pc EXCEPT ![p] = "loaded"]
        /\ overlapped' = (overlapped \/ OthersStarted(p))
        /\ UNCHANGED <<registry_vars, norm_vars, asm_vars, mint_vars, cand>>

\* lines 108-111 and 131-135: the file is opened for writing and filled
Conc_write_rows(p) ==
    /\ pc[p] = "loaded"
    /\ fileExists' = TRUE
    /\ tsv' = WriteFile(all_rows_of[p])
    /\ pc' = [pc EXCEPT ![p] = "done"]
    /\ overlapped' = (overlapped \/ OthersStarted(p))
    /\ UNCHANGED <<subdataset, ignore_super, subdataset_added, written, saved,
                   prev_exists, prev_tsv, repeated, runs, events>>
    /\ UNCHANGED <<norm_vars, asm_vars, mint_vars, cand, all_rows_of>>

NextConc ==
    \E p \in Procs :
        \/ \E dataset_type \in DatasetTypes, key \in Keys, ver \in Versions :
               \E url \in Urls(dataset_type) :
                   Conc_find_subdataset(p, dataset_type, Str(key[1]), Str(ver), url, Str(key[2]))
        \/ Conc_read_rows(p)
        \/ Conc_write_rows(p)

SpecConc == Init /\ [][NextConc]_vars

-----------------------------------------------------------------------------
(* The registry as the claims speak of it: the rows below the header, the  *)
(* candidate of the last run, and the case the candidate was in before it. *)
(* A reconciliation is a run without --ignore-super: with the flag the     *)
(* run does not try to add the subdataset to the registry at all.          *)

RowsOf(lines) == IF lines = <<>> THEN <<>> ELSE Tail(lines)
Registry == RowsOf(tsv)
PrevRegistry == RowsOf(prev_tsv)
RowKey(line) == <<line[2], line[4]>>
RowVersion(line) == line[3]
CandKey == <<subdataset.v["identifier"].v, subdataset.v["path_posix"].v>>
CandVersion == subdataset.v["version"].v
Reconciled == runs > 0 /\ ~ignore_super
WasAbsent == \A i \in 1..Len(PrevRegistry) : RowKey(PrevRegistry[i]) # CandKey
WasCurrent == \E i \in 1..Len(PrevRegistry) :
                 RowKey(PrevRegistry[i]) = CandKey /\ RowVersion(PrevRegistry[i]) = CandVersion
WasStale == \E i \in 1..Len(PrevRegistry) :
                 RowKey(PrevRegistry[i]) = CandKey /\ RowVersion(PrevRegistry[i]) # CandVersion
IsCandidateRow(line) ==
    /\ line[1] = subdataset.v["dataset_type"].v
    /\ RowKey(line) = CandKey
    /\ RowVersion(line) = CandVersion
OtherRows(rows) == SelectSeq(rows, LAMBDA line : RowKey(line) # CandKey)

\* C1: after any sequence of runs from an empty or missing registry file, the
\* registry holds at most one row per (identifier, path_posix) pair.
C1_OneRowPerKey ==
    \A i, j \in 1..Len(Registry) : RowKey(Registry[i]) = RowKey(Registry[j]) => i = j

\* a stale row was replaced in a registry of at least two rows
C1_Witness ==
    Reconciled /\ WasStale /\ subdataset_added /\ Len(Registry) >= 2

\* C2: a reconciliation that finds a stale row (same identifier and path_posix,
\* other version) puts the candidate at that row's index, keeps the length and
\* every other row where it was, leaves no row of the old version for the
\* pair, and reports changed = true.
C2_StaleReplacedInPlace ==
    (Reconciled /\ WasStale) =>
        /\ subdataset_added
        /\ Len(Registry) = Len(PrevRegistry)
        /\ \E i \in 1..Len(PrevRegistry) :
              /\ RowKey(PrevRegistry[i]) = CandKey
              /\ RowVersion(PrevRegistry[i]) # CandVersion
              /\ IsCandidateRow(Registry[i])
              /\ \A j \in 1..Len(PrevRegistry) : j # i => Registry[j] = PrevRegistry[j]
        /\ \A i \in 1..Len(Registry) :
              RowKey(Registry[i]) = CandKey => RowVersion(Registry[i]) = CandVersion

\* the stale row is replaced while another row follows it
C2_Witness ==
    /\ Reconciled /\ WasStale /\ subdataset_added
    /\ Len(PrevRegistry) >= 2
    /\ RowKey(PrevRegistry[1]) = CandKey

\* C3: a reconciliation whose candidate has no row (identifier and path_posix
\* absent, the file possibly missing) appends exactly one row for the
\* candidate as the last row; the registry grows by one, changed = true.
C3_AbsentAppended ==
    (Reconciled /\ WasAbsent) =>
        /\ subdataset_added
        /\ fileExists
        /\ Len(Registry) = Len(PrevRegistry) + 1
        /\ SubSeq(Registry, 1, Len(PrevRegistry)) = PrevRegistry
        /\ IsCandidateRow(Registry[Len(Registry)])

\* an absent candidate is appended to a registry that already has rows
C3_Witness ==
    Reconciled /\ WasAbsent /\ subdataset_added /\ Len(PrevRegistry) >= 1

\* an absent candidate creates the registry file
C3_WitnessMissingFile ==
    Reconciled /\ WasAbsent /\ subdataset_added /\ ~prev_exists

\* C4: a run never deletes or alters a row whose (identifier, path_posix)
\* differs from the candidate's: these rows are the same, in the same order,
\* before and after the run.
C4_OtherRowsKept ==
    runs > 0 => OtherRows(Registry) = OtherRows(PrevRegistry)

\* the registry is rewritten while it holds two rows of other references
C4_Witness ==
    Reconciled /\ subdataset_added /\ Len(OtherRows(PrevRegistry)) >= 2

\* C5: a reconciliation reports changed = false exactly in the current case;
\* in the absent and stale cases changed = true and the registry is written.
C5_ChangedUnlessCurrent ==
    Reconciled =>
        /\ (~subdataset_added) <=> WasCurrent
        /\ (WasAbsent \/ WasStale) =>
              /\ subdataset_added
              /\ written.k = "list"
              /\ fileExists
              /\ tsv = WriteFile(written.v)

\* a reconciliation in the current case
C5_Witness ==
    Reconciled /\ WasCurrent /\ ~subdataset_added /\ written = None

\* C6: reconciling the same reference a second time right after the first
\* yields changed = false and leaves the registry as the first call left it.
C6_Idempotent ==
    repeated => /\ ~subdataset_added
                /\ tsv = prev_tsv
                /\ fileExists = prev_exists

\* the same reference is reconciled twice in a row on a registry with rows
C6_Witness ==
    repeated /\ Len(Registry) >= 2

C8_UrlIffDatalad ==
    subdataset.k = "dict" =>
        (("url" \in DOMAIN subdataset.v) <=> (subdataset.v["dataset_type"] = Str("DATALAD")))

\* a DATALAD reference whose record has no url still carries the key
C8_Witness ==
    /\ subdataset.k = "dict"
    /\ subdataset.v["dataset_type"] = Str("DATALAD")
    /\ "url" \in DOMAIN subdataset.v
    /\ subdataset.v["url"] = None

-----------------------------------------------------------------------------
(* The normalizers the list/singleton claim names *)

\* a single object or list of objects becomes a list
Promoting == {"process_authors", "process_funding", "process_publications",
              "process_subdatasets", "cat_file_listing"}
\* a list is reduced to its first element
FirstOnly == {"process_arc"}
\* a list is mapped element by element, a single value gives a single value
Mirroring == {"process_data_controller", "process_used_for", "process_homepage",
              "process_ols_term(repr_ncbitaxon)", "process_ols_term(repr_uberon)"}
IsSingleValue == arg.k \notin {"none", "list"}
\* the single values a mirroring normalizer is made for
IsSingleFor(name) ==
    CASE name \in {"process_data_controller", "process_used_for"} -> arg.k = "dict"
      [] name = "process_homepage" -> IsSingleValue
      [] OTHER -> arg.k = "str"
OnOneElementList == Normalize(fn, List(<<arg>>), session)

\* C9 as stated: for every normalizer named and every single value x (a
\* single object, or a single string where the field is a string), the
\* output for x equals the output for the one-element list [x].
C9_ListSingletonAll ==
    (\/ fn \in Promoting \cup FirstOnly /\ arg.k = "dict"
     \/ fn \in Mirroring /\ IsSingleFor(fn)) =>
        result = OnOneElementList

\* C9 as amended: for authors, funding, publications, access-request contact,
\* subdatasets and the file list the output for a single object x equals the
\* output for [x]; for data controller, used-for, homepage and term
\* enrichment the output for [x] is the one-element list of the output for
\* x (the same exception when x makes the normalizer raise), not that output.
C9_ListSingleton ==
    /\ (fn \in Promoting \cup FirstOnly /\ arg.k = "dict") => result = OnOneElementList
    /\ (fn \in Mirroring /\ IsSingleFor(fn)) =>
          /\ OnOneElementList = IF result.k = "raise" THEN result ELSE List(<<result>>)
          /\ result.k # "raise" => OnOneElementList # result

\* an author object is normalized to a one-element list with the orcid folded in
C9_Witness ==
    /\ fn = "process_authors"
    /\ arg.k = "dict"
    /\ "orcid" \in DOMAIN arg.v
    /\ result.k = "list"
    /\ Len(result.v) = 1
    /\ "identifiers" \in DOMAIN result.v[1].v

\* a data controller object is tagged and returned as a single object
C9_WitnessMirroring ==
    /\ fn = "process_data_controller"
    /\ arg.k = "dict"
    /\ result.k = "dict"

\* C10: every normalizer returns a catalog value or absent for every raw
\* value shape (absent, scalar, typed-value wrapper, single object, list of
\* objects, the empty list, objects with keys missing); the only exception
\* it may raise is the failed coercion of a malformed value (ValueError).
C10_Total ==
    fn # "none" => (result.k = "raise" => result.v = "ValueError")

-----------------------------------------------------------------------------
(* The records a call of the assembler returned *)

Assembled == fn = "get_tabby_metadata" /\ result.k = "list"
Records == result.v
HasNoneValue(d) == \E f \in DOMAIN d.v : d.v[f] = None

\* C11: no record the assembler returns has a key whose value is None, for
\* every document: not among its top-level keys, not among the entries of the
\* additional display content, not in an entry of its subdatasets list.
C11_NoNoneValue ==
    Assembled =>
        \A i \in 1..Len(Records) :
            LET rec == Records[i]
            IN  /\ ~HasNoneValue(rec)
                /\ "additional_display" \in DOMAIN rec.v =>
                      \A j \in 1..Len(rec.v["additional_display"].v) :
                          ~HasNoneValue(rec.v["additional_display"].v[j].v["content"])
                /\ "subdatasets" \in DOMAIN rec.v =>
                      \A j \in 1..Len(rec.v["subdatasets"].v) :
                          ~HasNoneValue(rec.v["subdatasets"].v[j])

-----------------------------------------------------------------------------
(* Term enrichment when the ontology service does not know a term *)

OlsCall == fn \in {"process_ols_term(repr_ncbitaxon)", "process_ols_term(repr_uberon)"}
IsTermBatch == arg.k = "list" /\ \A i \in 1..Len(arg.v) : arg.v[i].k = "str"
LookupFailed(term) == session[term.v].status_code # 200
\* out is the representation of the answer of the service for the term
IsResolved(out, term) ==
    /\ out.k = "dict"
    /\ out.v["name"] = Get(session[term.v].json, "label", None)
    /\ out.v["preferredOntologyIdentifier"] = Get(session[term.v].json, "iri", None)

\* C12 as stated: when the lookup of a term answers with a non-200 status,
\* enrichment gives absent (None) for that term and does not raise; in a batch
\* every sibling term is still resolved, and the output list has the order and
\* the length of the input list.
C12_FailedLookupAbsent ==
    OlsCall =>
        /\ arg.k = "str" /\ LookupFailed(arg) => result = None
        /\ IsTermBatch =>
              /\ result.k = "list"
              /\ Len(result.v) = Len(arg.v)
              /\ \A i \in 1..Len(arg.v) :
                    IF LookupFailed(arg.v[i]) THEN result.v[i] = None
                    ELSE IsResolved(result.v[i], arg.v[i])

\* C12 as amended: when the lookup of a term answers with a non-200 status,
\* enrichment gives the term itself, unchanged, for that term and does not
\* raise; in a batch every sibling term is still resolved, and the output list
\* has the order and the length of the input list.
C12_FailedLookupKeepsTerm ==
    OlsCall =>
        /\ arg.k = "str" /\ LookupFailed(arg) => result = arg
        /\ arg.k = "str" /\ ~LookupFailed(arg) => IsResolved(result, arg)
        /\ IsTermBatch =>
              /\ result.k = "list"
              /\ Len(result.v) = Len(arg.v)
              /\ \A i \in 1..Len(arg.v) :
                    IF LookupFailed(arg.v[i]) THEN result.v[i] = arg.v[i]
                    ELSE IsResolved(result.v[i], arg.v[i])

\* a batch of two terms, the first unknown to the service, the second resolved
C12_Witness ==
    /\ OlsCall
    /\ IsTermBatch
    /\ Len(arg.v) = 2
    /\ arg.v[1] # arg.v[2]
    /\ LookupFailed(arg.v[1])
    /\ ~LookupFailed(arg.v[2])
    /\ result.k = "list"
    /\ result.v[1] = arg.v[1]
    /\ IsResolved(result.v[2], arg.v[2])

-----------------------------------------------------------------------------
(* The identity of the records *)

AssemblerCalled == fn = "get_tabby_metadata"
\* every byte size of the document's file list can be coerced
SizesCoercible == cat_file_listing(Get(arg, "fileList", None), EmptyDict).k # "raise"

\* C13: the id_source passed to the assembler is the one applied: under
\* tabby_mint dataset_id is the identifier minted from the document's name,
\* under tabby_direct it is the name itself, under datalad_dataset dataset_id
\* and dataset_version are the id and the revision of the datalad dataset;
\* every call with one of the three yields a dataset record that has both
\* dataset_id and dataset_version.
C13_IdSourceApplied ==
    (AssemblerCalled /\ SizesCoercible) =>
        /\ result.k = "list"
        /\ LET rec == Records[1]
           IN  /\ {"dataset_id", "dataset_version"} \subseteq DOMAIN rec.v
               /\ id_source = "tabby_mint" =>
                     rec.v["dataset_id"] = mint_dataset_id(Get(arg, "name", None))
               /\ id_source = "tabby_direct" =>
                     rec.v["dataset_id"] = Get(arg, "name", None)
               /\ id_source = "datalad_dataset" =>
                     /\ dataset # None
                     /\ rec.v["dataset_id"] = dataset.id
                     /\ rec.v["dataset_version"] = dataset.hexsha

-----------------------------------------------------------------------------
(* The identifiers minted so far *)

\* a name is a string; a document without name is minted from None
MintedFromName(i) == minted[i][1].k = "str"

-----------------------------------------------------------------------------
(* Authors and their ORCID *)

\* the author entries of a call of process_authors that returned
AuthorsNormalized == fn = "process_authors" /\ result.k = "list" /\ arg.k \in {"dict", "list"}
AuthorEntries == IF arg.k = "dict" THEN <<arg>> ELSE arg.v
OrcidIdentifiers(orcid) == List(<<Dict([name |-> Str("ORCID"), identifier |-> orcid])>>)

\* C15 as stated: for every author entry that has an orcid field, the
\* normalized author has no orcid key, its identifiers are exactly
\* [{name: "ORCID", identifier: the orcid value}], and its keys are among
\* name, email, identifiers, givenName, familyName, honorificSuffix.
C15_OrcidFolded ==
    AuthorsNormalized =>
        /\ Len(result.v) = Len(AuthorEntries)
        /\ \A i \in 1..Len(AuthorEntries) :
              "orcid" \in DOMAIN AuthorEntries[i].v =>
                  /\ "orcid" \notin DOMAIN result.v[i].v
                  /\ DOMAIN result.v[i].v \subseteq known_keys
                  /\ "identifiers" \in DOMAIN result.v[i].v
                  /\ result.v[i].v["identifiers"] = OrcidIdentifiers(AuthorEntries[i].v["orcid"])

\* C15 as amended: for every author entry the normalized author has no orcid
\* key and its keys are among the six of the allow-list; when the entry's
\* orcid is not empty, its identifiers are exactly [{name: "ORCID",
\* identifier: the orcid value}]; when the orcid is empty, the entry is
\* normalized as if it had no orcid field, so its identifiers are those of
\* the input, if any.
C15_NonEmptyOrcidFolded ==
    AuthorsNormalized =>
        /\ Len(result.v) = Len(AuthorEntries)
        /\ \A i \in 1..Len(AuthorEntries) :
              LET author == AuthorEntries[i]
                  out == result.v[i]
              IN  /\ "orcid" \notin DOMAIN out.v
                  /\ DOMAIN out.v \subseteq known_keys
                  /\ ("orcid" \in DOMAIN author.v /\ Truthy(author.v["orcid"])) =>
                        /\ "identifiers" \in DOMAIN out.v
                        /\ out.v["identifiers"] = OrcidIdentifiers(author.v["orcid"])
                  /\ ("orcid" \in DOMAIN author.v /\ ~Truthy(author.v["orcid"])) =>
                        /\ "identifiers" \in DOMAIN out.v <=>
                              ("identifiers" \in DOMAIN author.v /\ author.v["identifiers"] # None)
                        /\ "identifiers" \in DOMAIN out.v =>
                              out.v["identifiers"] = author.v["identifiers"]

\* an author with an orcid and a key outside the allow-list is normalized
C15_Witness ==
    /\ AuthorsNormalized
    /\ arg.k = "dict"
    /\ "orcid" \in DOMAIN arg.v
    /\ Truthy(arg.v["orcid"])
    /\ DOMAIN arg.v \ known_keys # {"orcid"}
    /\ result.v[1].v["identifiers"] = OrcidIdentifiers(arg.v["orcid"])

\* an author with an empty orcid is normalized
C15_WitnessEmptyOrcid ==
    /\ AuthorsNormalized
    /\ arg.k = "dict"
    /\ "orcid" \in DOMAIN arg.v
    /\ ~Truthy(arg.v["orcid"])
    /\ "identifiers" \notin DOMAIN result.v[1].v

-----------------------------------------------------------------------------
(* File entries *)

FileNormalized == fn = "process_file" /\ result.k = "dict"

\* C16: whenever process_file returns a result, a contentbytesize key of the
\* result holds an integer, never a string, whatever the byte size of the
\* input was; path is taken from the name field when the input has no path;
\* and no key of the result has the value None.
C16_ByteSizeIsInteger ==
    FileNormalized =>
        /\ "contentbytesize" \in DOMAIN result.v => result.v["contentbytesize"].k = "int"
        /\ ("path" \notin DOMAIN arg.v /\ "name" \in DOMAIN arg.v) =>
              /\ "path" \in DOMAIN result.v
              /\ result.v["path"] = arg.v["name"].v["@value"]
        /\ ~HasNoneValue(result)

-----------------------------------------------------------------------------
(* A byte size that cannot be coerced *)

\* the entries of the document's file list
DocFiles ==
    LET fileList == Get(arg, "fileList", None)
    IN  IF fileList.k = "none" THEN <<>>
        ELSE IF fileList.k = "list" THEN fileList.v
        ELSE <<fileList>>
HasBadSize(file_info) == process_file(file_info) = Raise("ValueError")
IdentityKnown == ~(id_source = "datalad_dataset" /\ dataset = None)

\* C17: a byte size that cannot be coerced to an integer is fatal for that
\* file's record only: the call still returns the dataset record, followed by
\* the records of the other files of the document, in order.
C17_BadSizeFatalForFileOnly ==
    (/\ AssemblerCalled
     /\ IdentityKnown
     /\ \E i \in 1..Len(DocFiles) : HasBadSize(DocFiles[i])) =>
        LET others == SelectSeq(DocFiles, LAMBDA file_info : ~HasBadSize(file_info))
        IN  /\ result.k = "list"
            /\ Records[1].v["type"] = Str("dataset")
            /\ Len(Records) = 1 + Len(others)
            /\ \A i \in 1..Len(others) :
                  /\ Records[i + 1].v["type"] = Str("file")
                  /\ \A f \in DOMAIN process_file(others[i]).v :
                        Records[i + 1].v[f] = process_file(others[i]).v[f]

-----------------------------------------------------------------------------
(* The subdatasets of a record *)

SubdatasetsCalled == fn = "process_subdatasets"
\* the objects of the input: a single object counts as a list of one
SubdatasetObjects == IF arg.k = "dict" THEN <<arg>> ELSE arg.v
IsObjects == arg.k = "dict" \/ (arg.k = "list" /\ \A i \in 1..Len(arg.v) : arg.v[i].k = "dict")

\* C18: process_subdatasets never returns None: for an absent or empty input
\* it returns the empty list, and for a single object or a list of objects a
\* list with one entry per object, in order, that maps identifier, version,
\* path_posix and url to dataset_id, dataset_version, dataset_path and
\* dataset_url.
C18_NeverNone ==
    SubdatasetsCalled =>
        /\ result # None
        /\ (arg = None \/ arg = List(<<>>)) => result = List(<<>>)
        /\ IsObjects =>
              /\ result.k = "list"
              /\ Len(result.v) = Len(SubdatasetObjects)
              /\ \A i \in 1..Len(SubdatasetObjects) :
                    /\ DOMAIN result.v[i].v =
                          {"dataset_id", "dataset_version", "dataset_path", "dataset_url"}
                    /\ result.v[i].v["dataset_id"] = Get(SubdatasetObjects[i], "identifier", None)
                    /\ result.v[i].v["dataset_version"] = Get(SubdatasetObjects[i], "version", None)
                    /\ result.v[i].v["dataset_path"] = Get(SubdatasetObjects[i], "path_posix", None)
                    /\ result.v[i].v["dataset_url"] = Get(SubdatasetObjects[i], "url", None)

-----------------------------------------------------------------------------
(* C19: shape of the list the assembler returns *)

SharedKeys == {"type", "dataset_id", "dataset_version", "metadata_sources"}
FileRecords == SubSeq(Records, 2, Len(Records))
\* the record agrees with the dataset record on a shared key (a key that is
\* absent reads as None, as with dict.get)
SameAsDataset(rec, key) == Get(rec, key, None) = Get(Records[1], key, None)
OwnsSharedKey(file_info) ==
    file_info.k = "dict" /\ DOMAIN file_info.v \cap SharedKeys # {}

\* C19: every list the assembler returns starts with the one record of type
\* dataset, followed by one record per entry of the document's file list in
\* input order; every file record has type file and the dataset_id,
\* dataset_version and source name and version of the dataset record, also
\* when the file entry has keys of these names itself.
C19_RecordListShape ==
    Assembled =>
        /\ Len(Records) = 1 + Len(DocFiles)
        /\ Records[1].v["type"] = Str("dataset")
        /\ \A i \in 1..Len(DocFiles) :
              LET rec == FileRecords[i]
                  fields == process_file(DocFiles[i])
              IN  /\ rec.v["type"] = Str("file")
                  /\ SameAsDataset(rec, "dataset_id")
                  /\ SameAsDataset(rec, "dataset_version")
                  /\ SameAsDataset(rec, "metadata_sources")
                  /\ rec.v["metadata_sources"] =
                         Dict([sources |-> List(<<Dict([source_name    |-> Str("tabby"),
                                                        source_version |-> Str("0.1.0")])>>)])
                  /\ \A key \in DOMAIN fields.v \ SharedKeys : rec.v[key] = fields.v[key]

\* a dataset with an identifier and two files, the second of which has keys
\* named like the shared ones
C19_Witness ==
    /\ Assembled
    /\ Len(DocFiles) = 2
    /\ OwnsSharedKey(DocFiles[2])
    /\ "dataset_id" \in DOMAIN Records[1].v
    /\ FileRecords[1].v["path"] # FileRecords[2].v["path"]
    /\ FileRecords[2].v["type"] = Str("file")
\* the singleton file list
C19_WitnessSingleton ==
    /\ Assembled
    /\ Get(arg, "fileList", None).k = "dict"
    /\ Len(Records) = 2

-----------------------------------------------------------------------------
(* C20: reconciliations that overlap *)

AllDone == \A p \in Procs : pc[p] = "done"
RefKey(ref) == <<ref.v["identifier"].v, ref.v["path_posix"].v>>
RegistryHas(ref) ==
    \E i \in 1..Len(Registry) :
        /\ RowKey(Registry[i]) = RefKey(ref)
        /\ RowVersion(Registry[i]) = ref.v["version"].v
DifferentKeys == \A p, q \in Procs : p # q => RefKey(cand[p]) # RefKey(cand[q])

\* C20: when two reconciliations of references with different (identifier,
\* path_posix) run one after the other, the registry holds the rows of both
\* once they are done; a row of one of them can be missing only when the runs
\* overlapped.
C20_SerialKeepsBoth ==
    (AllDone /\ DifferentKeys /\ ~overlapped) => \A p \in Procs : RegistryHas(cand[p])

\* the serial case: both are done, one after the other, and both rows are there
C20_WitnessSerial ==
    /\ AllDone /\ DifferentKeys /\ ~overlapped
    /\ \A p \in Procs : RegistryHas(cand[p])
    /\ Len(Registry) = 2

\* the lost update: both runs read before either wrote, both are done, and
\* the row of the first writer is gone
C20_Witness ==
    /\ AllDone /\ DifferentKeys /\ overlapped
    /\ \E p \in Procs : ~RegistryHas(cand[p])
    /\ \E p \in Procs : RegistryHas(cand[p])

DifferentReferences == \A p, q \in Procs : p # q => cand[p] # cand[q]

\* C20 as stated, for any two references that differ: after two runs one
\* after the other the registry holds the rows of both.
C20_SerialKeepsBothAnyReference ==
    (AllDone /\ DifferentReferences /\ ~overlapped) => \A p \in Procs : RegistryHas(cand[p])

-----------------------------------------------------------------------------
(* C21: the normalizers and the value they are called with *)

NormalizerCalled == fn \notin {"none", "get_tabby_metadata"}
HadCitation(publication) == publication.k = "dict" /\ "citation" \in DOMAIN publication.v

\* C21: a call of a normalizer leaves the value it is called with as it was,
\* with the same keys and values; a publication object passed to
\* process_publications still has its citation key after the call.
C21_InputUnchanged ==
    NormalizerCalled =>
        /\ arg_after = arg
        /\ (fn = "process_publications" /\ HadCitation(arg)) => HadCitation(arg_after)

\* C21 for every normalizer but process_publications
C21_OthersLeaveInput ==
    (NormalizerCalled /\ fn # "process_publications") => arg_after = arg

\* process_publications changes a publication object exactly when it has a
\* citation key
C21_CitationMoved ==
    (fn = "process_publications" /\ arg.k = "dict") =>
        /\ HadCitation(arg) => (~HadCitation(arg_after) /\ arg_after.v["title"] = arg.v["citation"])
        /\ ~HadCitation(arg) => arg_after = arg

-----------------------------------------------------------------------------
(* C22, C23: what a run does to the registry file, the superdataset and the *)
(* catalog, and in which order                                              *)

Calls(call) == {i \in 1..Len(events) : events[i].call = call}
SuperAdds == {i \in Calls("catalog_add") : events[i].record \in {"super core", "super tabby"}}
SubdsAdds == Calls("catalog_add") \ SuperAdds
Ignored == runs > 0 /\ ignore_super

\* C22: a run with --ignore-super leaves the registry file as it was and does
\* not save the superdataset, whether the candidate was absent, current or
\* stale; it adds no record of the superdataset to the catalog and does not
\* set the catalog home.
C22_IgnoreSuperFrame ==
    Ignored =>
        /\ fileExists = prev_exists
        /\ tsv = prev_tsv
        /\ written = None
        /\ ~saved
        /\ Calls("write") = {} /\ Calls("save") = {}
        /\ SuperAdds = {} /\ Calls("catalog_set") = {}

\* a run with the flag on a stale candidate that added records of the
\* subdirectory to the catalog
C22_Witness == Ignored /\ WasStale /\ SubdsAdds # {}
C22_WitnessAbsent == Ignored /\ WasAbsent /\ SubdsAdds # {}
C22_WitnessCurrent == Ignored /\ WasCurrent /\ SubdsAdds # {}

Before(earlier, later) == \A i \in earlier, j \in later : i < j

\* C23: a run saves the superdataset exactly when it wrote the registry file;
\* the save comes after the write and before the superdataset's metadata is
\* extracted again; the catalog home is set after every record of the
\* superdataset and of the subdirectory has been added.
C23_SaveIffWriteInOrder ==
    runs > 0 =>
        /\ saved <=> written # None
        /\ Calls("save") # {} <=> Calls("write") # {}
        /\ saved <=> Calls("save") # {}
        /\ Before(Calls("write"), Calls("save"))
        /\ Before(Calls("save"), Calls("get_super_metadata"))
        /\ Calls("get_super_metadata") # {}
        /\ Before(Calls("catalog_add"), Calls("catalog_set"))
        /\ Calls("catalog_set") # {} => SuperAdds # {}

\* a run that wrote and saved, and added the superdataset's records and the
\* subdirectory's dataset and file records before it set the home
C23_Witness ==
    /\ runs > 0 /\ saved
    /\ Calls("catalog_set") # {}
    /\ \E i \in SubdsAdds : events[i].record = "subds file"
    /\ \E i \in SubdsAdds : events[i].record = "subds dataset"
\* a run without the flag that found the candidate current: no write, no save
C23_WitnessNoWrite ==
    runs > 0 /\ ~ignore_super /\ WasCurrent /\ ~saved /\ Calls("catalog_set") # {}

====
